---- MODULE Spec2Model ----
(***************************************************************************)
(* State machine of the TwitchStonks engine (backend/app/stonks_state.py)  *)
(* on a cooperative (asyncio) scheduler.  One action is one run of a       *)
(* coroutine from the await it resumes at to the next await it suspends at.*)
(*                                                                         *)
(* Prices are kept as integers in units of the price step 0.5: the model   *)
(* value p stands for the float p / Scale (209 stands for 104.5).          *)
(***************************************************************************)
EXTENDS Integers, Sequences, FiniteSets, TLC

\* ---------------------------------------------------------------- bounds
MaxSignals == 3        \* signals recorded by handle_message in one run
MaxTime == 3           \* ticker wake-ups in one run (the logical clock)
MaxTasks == 2          \* ticker loop tasks created in one run
MaxBcasts == 2         \* fire-and-forget broadcast tasks alive at once
MaxStatusChanges == 2  \* changes of a status flag in one run
MaxHandles == 2        \* websocket handles that connect in one run
FewSignals == 2        \* signals in a run that keeps an inbox
FewTicks == 2          \* ticker wake-ups in a run that keeps an inbox
MaxRecords == 3        \* records in the collection a history query reads
MaxFailures == 2       \* chat connections that fail or close in one run
MaxRuns == 2           \* start() calls on the chat client in one run

\* ------------------------------------------------------ program constants
Scale == 2             \* 1 / 0.5, the per-signal price step
TickInterval == 1      \* tick_interval_seconds, in clock units
Hour == 2              \* an hour in clock units (tick_interval_minutes = 30)
Day == 24 * Hour
AGGREGATE_HOURLY_MAX_DAYS == 7

Handles == 1..MaxHandles
TaskIds == 1..MaxTasks
InitialPrices == {1}       \* initial_price 0.5

VARIABLES
  initial_price,     \* self.initial_price
  current_price,     \* self.current_price
  up_counter,        \* self._up_counter
  down_counter,      \* self._down_counter
  running,           \* self._running
  ticker_task,       \* self._ticker_task (0 is None)
  tasks,             \* the ticker loop tasks and where each is suspended
  websockets,        \* self._websockets, a list
  collection,        \* the price_ticks collection, in insertion order
  now,               \* the clock
  next_tick_at,      \* self.next_tick_at
  twitch_connected,  \* self.twitch_connected
  stream_live,       \* self.stream_live
  bcasts,            \* the tasks made by asyncio.create_task for broadcasts
  hstate,            \* each websocket's connection state
  inbox,             \* the messages each websocket was sent, in order
  observed,          \* the handles whose inbox the run keeps (an observer's log)
  reg,               \* where each register() call is suspended
  starts,            \* the start() calls suspended in _load_price_from_history
  stop_pc,           \* where the stop() call is suspended, or how the last one ended
  stop_list,         \* the handles stop() still has to close
  status_changes,    \* how many times a status flag has changed
  cum,               \* how many up / down signals were ever recorded
  snap,              \* cum at the latest counter snapshot
  points,            \* the PricePoint built by each non-empty tick, with the
                     \* price before it and the signals recorded for it
  response,          \* the latest /history request and what it returned
  heard,             \* the latest chat message given to on_message, and a
                     \* bit that flips at every call (an observer's log)
  client,            \* the TwitchClient: _running, connected, where its
                     \* listen task is suspended, and its writer
  request            \* the /history call that is suspended at an await

vars == <<initial_price, current_price, up_counter, down_counter, running,
          ticker_task, tasks, websockets, collection, now, next_tick_at,
          twitch_connected, stream_live, bcasts, hstate, inbox, observed, reg,
          starts, stop_pc, stop_list, status_changes, cum, snap, points,
          response, heard, client, request>>

\* ---------------------------------------------------------------- helpers
Max(a, b) == IF a >= b THEN a ELSE b

Range(s) == {s[k] : k \in 1..Len(s)}

RECURSIVE SumOver(_, _)
SumOver(s, field) ==
  IF s = <<>> THEN 0 ELSE s[1][field] + SumOver(Tail(s), field)

RECURSIVE Without(_, _)
\* the list after "for ws in disconnected: if ws in list: list.remove(ws)"
Without(s, gone) ==
  IF s = <<>> THEN <<>>
  ELSE IF s[1] \in gone THEN Without(Tail(s), gone)
       ELSE <<s[1]>> \o Without(Tail(s), gone)

\* -------------------------------------------------- keyword classification
UpKeywordConfig == <<"U">>
DownKeywordConfig == <<"D">>
Chars == {"U", "u", "D", "d", "x"}
Messages == {<<c>> : c \in Chars} \cup {<<c, d>> : c \in {"U", "u", "x"}, d \in {"D", "d", "x"}}

KeepChar(c) == c
LowerChar(c) == CASE c = "U" -> "u" [] c = "D" -> "d" [] OTHER -> c
Lower(s) == [k \in 1..Len(s) |-> LowerChar(s[k])]
Contains(sub, s) ==
  \E k \in 0..(Len(s) - Len(sub)) : \A j \in 1..Len(sub) : s[k + j] = sub[j]

up_keyword == Lower(UpKeywordConfig)
down_keyword == Lower(DownKeywordConfig)

keyword_in_message(message) ==
  Contains(up_keyword, Lower(message)) \/ Contains(down_keyword, Lower(message))

\* ------------------------------------------------------------- price rule
\* (up_count * 0.5) - (down_count * 0.5), in units of 1 / Scale
price_change_unscaled_down(up, down) == ((up * Scale) \div 2) - (down * Scale)
price_change(up, down) == ((up * Scale) \div 2) - ((down * Scale) \div 2)

TickPriceNoClamp(price, up, down) == price + price_change(up, down)
TickPrice(price, up, down) == Max(0, price + price_change(up, down))

_calculate_price_unclamped(up_total, down_total) ==
  initial_price + price_change(up_total, down_total)
_calculate_price(up_total, down_total) ==
  Max(0, initial_price + price_change(up_total, down_total))

\* ----------------------------------------------------------------- payloads
PricePoint(ts, price, up, down) ==
  [timestamp |-> ts, price |-> price, up_count |-> up, down_count |-> down]

to_db_no_counts(point) ==
  [timestamp |-> point.timestamp, up_count |-> 0, down_count |-> 0]
to_db(point) ==
  [timestamp |-> point.timestamp, up_count |-> point.up_count,
   down_count |-> point.down_count]

NoMsg == [type |-> "none"]

TickMsg(point) ==
  [type |-> "tick", timestamp |-> point.timestamp, price |-> point.price,
   up_count |-> point.up_count, down_count |-> point.down_count]

LiveMsg(up, down) == [type |-> "live_counts", up_count |-> up, down_count |-> down]

StatusMsg(tc, sl) == [type |-> "status", twitch_connected |-> tc, stream_live |-> sl]

SnapshotMsg(price, up, down) ==
  [type |-> "snapshot", price |-> price, up_count |-> up, down_count |-> down]

\* the snapshot-and-reset of one counter in _tick
keep_counter(count) == count
reset_counter(count) == 0

\* ------------------------------------------------------------ send_text
SendOk(h) == hstate[h] = "open"

Sent(inb, h, msg) ==
  IF SendOk(h) /\ h \in observed THEN [inb EXCEPT ![h] = Append(@, msg)] ELSE inb

Failed(disc, h) == IF SendOk(h) THEN disc ELSE disc \cup {h}

\* ------------------------------------------------------------------- Init
NoResponse == [range |-> "", status |-> 0, rows |-> <<>>]
NoMessage == [message |-> <<>>, flip |-> 0]
NoRequest == [pc |-> "idle", range |-> "", start_time |-> 0,
              base_up |-> 0, base_down |-> 0]

\* TwitchClient.__init__; "failures" and "runs" count what has happened so far
\* "stopping": stop() is suspended at "await self._task"
NewClient == [running |-> FALSE, connected |-> FALSE, pc |-> "none",
              writer |-> "none", failures |-> 0, runs |-> 0,
              stopping |-> FALSE]

IdleTask == [phase |-> "none", point |-> PricePoint(0, 0, 0, 0), i |-> 0,
             disc |-> {}, msg |-> NoMsg, at |-> "none", inserted |-> FALSE,
             began |-> <<>>, tried |-> <<>>]

InitEngine ==
  /\ initial_price \in InitialPrices
  /\ current_price = initial_price
  /\ up_counter = 0
  /\ down_counter = 0
  /\ running = FALSE
  /\ ticker_task = 0
  /\ tasks = [t \in TaskIds |-> IdleTask]
  /\ websockets = <<>>
  /\ collection = <<>>
  /\ now = 0
  /\ next_tick_at = TickInterval
  /\ twitch_connected = FALSE
  /\ stream_live = FALSE
  /\ bcasts = <<>>
  /\ hstate = [h \in Handles |-> "new"]
  /\ inbox = [h \in Handles |-> <<>>]
  /\ reg = [h \in Handles |-> "idle"]
  /\ starts = 0
  /\ stop_pc = "idle"
  /\ stop_list = <<>>
  /\ status_changes = 0
  /\ cum = [up |-> 0, down |-> 0]
  /\ snap = [up |-> 0, down |-> 0]
  /\ points = <<>>
  /\ response = NoResponse
  /\ heard = NoMessage
  /\ client = NewClient
  /\ request = NoRequest

\* the engine after construction, every inbox kept
Init == InitEngine /\ observed = Handles

\* the same engine with the inbox of one handle kept, or of none: what was sent
\* to the others is then no part of the state, everything the program itself
\* holds is
InitOne == InitEngine /\ observed = {1}
InitQuiet == InitEngine /\ observed = {}

\* -------------------------------------------------------- _send_payload
\* One resumption of "for ws in self._websockets: await ws.send_text(..)":
\* the list iterator looks at the list as it is now, at position i.
\* "att" is the handle the step called send_text on.  A run that keeps every
\* inbox also keeps each sweep's log: "began", the list the sweep started on,
\* and "tried", the handles it has called send_text on, in order.
Watched(ws) == IF observed = Handles THEN ws ELSE <<>>

SweepStopAtFailure(ws, inb, i, disc, msg) ==
  IF i <= Len(ws) /\ disc = {}
  THEN [done |-> FALSE, inbox |-> Sent(inb, ws[i], msg), i |-> i + 1,
        disc |-> Failed(disc, ws[i]), ws |-> ws, att |-> Watched(<<ws[i]>>)]
  ELSE [done |-> TRUE, inbox |-> inb, i |-> 0, disc |-> {},
        ws |-> Without(ws, disc), att |-> <<>>]
SweepNext(ws, inb, i, disc, msg) ==
  IF i <= Len(ws)
  THEN [done |-> FALSE, inbox |-> Sent(inb, ws[i], msg), i |-> i + 1,
        disc |-> Failed(disc, ws[i]), ws |-> ws, att |-> Watched(<<ws[i]>>)]
  ELSE [done |-> TRUE, inbox |-> inb, i |-> 0, disc |-> {},
        ws |-> Without(ws, disc), att |-> <<>>]

\* ------------------------------------------------- increment / handle_message
NewLiveTask == [kind |-> "live_counts", phase |-> "created", msg |-> NoMsg,
                i |-> 0, disc |-> {}, began |-> <<>>, tried |-> <<>>]
NewStatusTask == [kind |-> "status", phase |-> "created", msg |-> NoMsg,
                  i |-> 0, disc |-> {}, began |-> <<>>, tried |-> <<>>]

Hits(message) ==
  [up |-> IF Contains(up_keyword, Lower(message)) THEN 1 ELSE 0,
   down |-> IF Contains(down_keyword, Lower(message)) THEN 1 ELSE 0]

\* a run that keeps every inbox also keeps the message of each on_message call
Logged(message) ==
  IF observed = Handles THEN [message |-> message, flip |-> 1 - heard.flip]
  ELSE heard

\* handle_message for a message that passed keyword_in_message
handle_message(message) ==
  LET hit == Hits(message)
      n == hit.up + hit.down
  IN /\ keyword_in_message(message)
     /\ cum.up + cum.down + n <= MaxSignals
     /\ Len(bcasts) + n <= MaxBcasts
     /\ up_counter' = up_counter + hit.up
     /\ down_counter' = down_counter + hit.down
     /\ cum' = [up |-> cum.up + hit.up, down |-> cum.down + hit.down]
     /\ bcasts' = bcasts \o [k \in 1..n |-> NewLiveTask]
     /\ heard' = Logged(message)
     /\ UNCHANGED <<initial_price, observed, client, request, response, current_price, running, ticker_task, tasks,
                    websockets, collection, now, next_tick_at,
                    twitch_connected, stream_live, hstate, inbox, reg, starts,
                    stop_pc, stop_list, status_changes, snap, points>>

\* the on_message callback of main.py: handle_message if keyword_in_message,
\* else None
on_message(message) ==
  \/ handle_message(message)
  \/ /\ ~keyword_in_message(message)
     /\ heard' = Logged(message)
     /\ UNCHANGED <<initial_price, observed, client, request, response, current_price, up_counter,
                    down_counter, running, ticker_task, tasks, websockets,
                    collection, now, next_tick_at, twitch_connected,
                    stream_live, bcasts, hstate, inbox, reg, starts, stop_pc,
                    stop_list, status_changes, cum, snap, points>>

\* ------------------------------------------------------ _ticker_loop / _tick
LoopCheck(r) == IF r THEN "sleep" ELSE "done"

\* "except Exception" around "await self._tick()": logged, back to the while
exception_escapes(r) == "done"
after_exception(r) == LoopCheck(r)

\* "if up_count == 0 and down_count == 0" of _tick
no_up_activity(up_count, down_count) == up_count = 0
no_activity(up_count, down_count) == up_count = 0 /\ down_count = 0

Parked(phase) == [IdleTask EXCEPT !.phase = phase]

\* asyncio.sleep returns: lines 118-138 of _tick, up to "await insert_one"
TickWake(t) ==
  /\ tasks[t].phase = "sleep"
  /\ now < MaxTime
  /\ now' = now + 1
  /\ LET up_count == up_counter
         down_count == down_counter
         price == TickPrice(current_price, up_count, down_count)
         point == PricePoint(now', price, up_count, down_count)
     IN /\ up_counter' = reset_counter(up_counter)
        /\ down_counter' = reset_counter(down_counter)
        /\ snap' = cum
        /\ next_tick_at' = now' + TickInterval
        /\ IF no_activity(up_count, down_count)
           THEN /\ tasks' = [tasks EXCEPT ![t] = Parked(LoopCheck(running))]
                /\ UNCHANGED <<current_price, points>>
           ELSE /\ current_price' = price
                /\ tasks' = [tasks EXCEPT ![t] =
                               [IdleTask EXCEPT !.phase = "insert", !.point = point]]
                /\ points' = Append(points,
                               [point |-> point, before |-> current_price,
                                sig_up |-> cum.up - snap.up,
                                sig_down |-> cum.down - snap.down])
  /\ UNCHANGED <<initial_price, observed, client, request, response, heard, running, ticker_task, websockets, collection,
                 twitch_connected, stream_live, bcasts, hstate, inbox, reg,
                 starts, stop_pc, stop_list, status_changes, cum>>

\* the rest of _tick once the tick sweep is over: the reset live_counts sweep
\* starts at once, on the list the tick sweep has just pruned
StartLiveSweep(t, ws, inb) ==
  LET s == SweepNext(ws, inb, 1, {}, LiveMsg(up_counter, down_counter))
  IN /\ websockets' = s.ws
     /\ inbox' = s.inbox
     /\ tasks' = [tasks EXCEPT ![t] =
          IF s.done THEN Parked(LoopCheck(running))
          ELSE [@ EXCEPT !.phase = "send_live", !.i = s.i, !.disc = s.disc,
                         !.msg = LiveMsg(up_counter, down_counter),
                         !.began = Watched(ws), !.tried = s.att]]

\* insert_one returns or raises: lines 139-147 up to the next await
TickInsertDone(t) ==
  /\ tasks[t].phase = "insert"
  /\ \E ok \in BOOLEAN :
       IF ok
       THEN /\ collection' = Append(collection, to_db(tasks[t].point))
            /\ LET msg == TickMsg(tasks[t].point)
                   s == SweepNext(websockets, inbox, 1, {}, msg)
               IN IF s.done
                  THEN StartLiveSweep(t, s.ws, s.inbox)
                  ELSE /\ inbox' = s.inbox
                       /\ tasks' = [tasks EXCEPT ![t] =
                            [@ EXCEPT !.phase = "send_tick", !.i = s.i,
                                      !.disc = s.disc, !.msg = msg,
                                      !.inserted = TRUE,
                                      !.began = Watched(websockets),
                                      !.tried = s.att]]
                       /\ UNCHANGED websockets
       ELSE /\ tasks' = [tasks EXCEPT ![t] = Parked(after_exception(running))]
            /\ UNCHANGED <<collection, websockets, inbox>>
  /\ UNCHANGED <<initial_price, observed, client, request, response, heard, current_price, up_counter, down_counter,
                 running, ticker_task, now, next_tick_at, twitch_connected,
                 stream_live, bcasts, hstate, reg, starts, stop_pc, stop_list,
                 status_changes, cum, snap, points>>

\* a send_text of the tick sweep returns
TickSendTick(t) ==
  /\ tasks[t].phase = "send_tick"
  /\ LET s == SweepNext(websockets, inbox, tasks[t].i, tasks[t].disc, tasks[t].msg)
     IN IF s.done
        THEN StartLiveSweep(t, s.ws, s.inbox)
        ELSE /\ inbox' = s.inbox
             /\ tasks' = [tasks EXCEPT ![t] =
                  [@ EXCEPT !.i = s.i, !.disc = s.disc, !.tried = @ \o s.att]]
             /\ UNCHANGED websockets
  /\ UNCHANGED <<initial_price, observed, client, request, response, heard, current_price, up_counter, down_counter,
                 running, ticker_task, collection, now, next_tick_at,
                 twitch_connected, stream_live, bcasts, hstate, reg, starts,
                 stop_pc, stop_list, status_changes, cum, snap, points>>

\* a send_text of the reset live_counts sweep returns
TickSendLive(t) ==
  /\ tasks[t].phase = "send_live"
  /\ LET s == SweepNext(websockets, inbox, tasks[t].i, tasks[t].disc, tasks[t].msg)
     IN /\ inbox' = s.inbox
        /\ websockets' = s.ws
        /\ tasks' = [tasks EXCEPT ![t] =
             IF s.done THEN Parked(LoopCheck(running))
             ELSE [@ EXCEPT !.i = s.i, !.disc = s.disc, !.tried = @ \o s.att]]
  /\ UNCHANGED <<initial_price, observed, client, request, response, heard, current_price, up_counter, down_counter,
                 running, ticker_task, collection, now, next_tick_at,
                 twitch_connected, stream_live, bcasts, hstate, reg, starts,
                 stop_pc, stop_list, status_changes, cum, snap, points>>

\* ------------------------------------------- fire-and-forget broadcast tasks
RemoveAt(s, k) == [j \in 1..(Len(s) - 1) |-> IF j < k THEN s[j] ELSE s[j + 1]]

\* _broadcast_live_counters / _broadcast_status_update: the payload is built
\* when the task first runs, not when create_task was called
BcastPayload(kind) ==
  IF kind = "live_counts" THEN LiveMsg(up_counter, down_counter)
  ELSE StatusMsg(twitch_connected, stream_live)

BcastRun(k) ==
  /\ k \in 1..Len(bcasts)
  /\ bcasts[k].phase = "created" => \A j \in 1..(k - 1) : bcasts[j].phase # "created"
  /\ LET b == bcasts[k]
         msg == IF b.phase = "created" THEN BcastPayload(b.kind) ELSE b.msg
         s == IF b.phase = "created"
              THEN SweepNext(websockets, inbox, 1, {}, msg)
              ELSE SweepNext(websockets, inbox, b.i, b.disc, msg)
     IN /\ inbox' = s.inbox
        /\ websockets' = s.ws
        /\ bcasts' = IF s.done THEN RemoveAt(bcasts, k)
                     ELSE [bcasts EXCEPT ![k] =
                             [@ EXCEPT !.phase = "sending", !.msg = msg,
                                       !.i = s.i, !.disc = s.disc,
                                       !.began = IF b.phase = "created"
                                                 THEN Watched(websockets) ELSE @,
                                       !.tried = @ \o s.att]]
  /\ UNCHANGED <<initial_price, observed, client, request, response, heard, current_price, up_counter, down_counter,
                 running, ticker_task, tasks, collection, now, next_tick_at,
                 twitch_connected, stream_live, hstate, reg, starts, stop_pc,
                 stop_list, status_changes, cum, snap, points>>

\* ------------------------------------------------------------ status setters
\* the setter without its "if self.twitch_connected == connected: return"
set_twitch_status_unchecked(connected) ==
  /\ status_changes < MaxStatusChanges
  /\ Len(bcasts) < MaxBcasts
  /\ status_changes' = status_changes + 1
  /\ twitch_connected' = connected
  /\ bcasts' = Append(bcasts, NewStatusTask)
  /\ UNCHANGED <<initial_price, observed, client, request, response, heard, current_price, up_counter,
                 down_counter, running, ticker_task, tasks, websockets,
                 collection, now, next_tick_at, stream_live, hstate, inbox, reg,
                 starts, stop_pc, stop_list, cum, snap, points>>

\* what set_twitch_status does to the engine
twitch_status_effect(connected) ==
  IF twitch_connected = connected
  THEN UNCHANGED <<twitch_connected, bcasts, status_changes>>
  ELSE /\ status_changes < MaxStatusChanges
       /\ Len(bcasts) < MaxBcasts
       /\ status_changes' = status_changes + 1
       /\ twitch_connected' = connected
       /\ bcasts' = Append(bcasts, NewStatusTask)

set_twitch_status(connected) ==
  /\ twitch_status_effect(connected)
  /\ UNCHANGED <<initial_price, observed, client, request, response, heard, current_price, up_counter, down_counter,
                 running, ticker_task, tasks, websockets, collection, now,
                 next_tick_at, stream_live, hstate, inbox, reg, starts,
                 stop_pc, stop_list, cum, snap, points>>

set_stream_status(is_live) ==
  /\ IF stream_live = is_live
     THEN UNCHANGED <<stream_live, bcasts, status_changes>>
     ELSE /\ status_changes < MaxStatusChanges
          /\ Len(bcasts) < MaxBcasts
          /\ status_changes' = status_changes + 1
          /\ stream_live' = is_live
          /\ bcasts' = Append(bcasts, NewStatusTask)
  /\ UNCHANGED <<initial_price, observed, client, request, response, heard, current_price, up_counter, down_counter,
                 running, ticker_task, tasks, websockets, collection, now,
                 next_tick_at, twitch_connected, hstate, inbox, reg, starts,
                 stop_pc, stop_list, cum, snap, points>>

\* ------------------------------------------------------------------ register
\* find_one(sort=[("timestamp", -1)]): the record with the greatest timestamp
Latest(coll) ==
  IF coll = <<>> THEN [found |-> FALSE, up_count |-> 0, down_count |-> 0]
  ELSE LET r == CHOOSE x \in Range(coll) :
                  \A y \in Range(coll) : y.timestamp <= x.timestamp
       IN [found |-> TRUE, up_count |-> r.up_count, down_count |-> r.down_count]

\* websocket.accept() returns: the handle is appended, find_one is awaited
RegisterAccept(h) ==
  /\ reg[h] = "idle"
  /\ hstate[h] = "new"
  /\ hstate' = [hstate EXCEPT ![h] = "open"]
  /\ websockets' = Append(websockets, h)
  /\ reg' = [reg EXCEPT ![h] = "find_one"]
  /\ UNCHANGED <<initial_price, observed, client, request, response, heard, current_price, up_counter, down_counter,
                 running, ticker_task, tasks, collection, now, next_tick_at,
                 twitch_connected, stream_live, bcasts, inbox, starts, stop_pc,
                 stop_list, status_changes, cum, snap, points>>

\* find_one returns: the snapshot is sent; a failed send raises out of register
RegisterSnapshot(h) ==
  /\ reg[h] = "find_one"
  /\ LET latest == Latest(collection)
         msg == SnapshotMsg(current_price, latest.up_count, latest.down_count)
     IN /\ inbox' = Sent(inbox, h, msg)
        /\ reg' = [reg EXCEPT ![h] = IF SendOk(h) THEN "send_live" ELSE "failed"]
  /\ UNCHANGED <<initial_price, observed, client, request, response, heard, current_price, up_counter, down_counter,
                 running, ticker_task, tasks, websockets, collection, now,
                 next_tick_at, twitch_connected, stream_live, bcasts, hstate,
                 starts, stop_pc, stop_list, status_changes, cum, snap, points>>

\* the snapshot's send_text returns: the live_counts message is sent
RegisterLive(h) ==
  /\ reg[h] = "send_live"
  /\ inbox' = Sent(inbox, h, LiveMsg(up_counter, down_counter))
  /\ reg' = [reg EXCEPT ![h] = IF SendOk(h) THEN "done" ELSE "failed"]
  /\ UNCHANGED <<initial_price, observed, client, request, response, heard, current_price, up_counter, down_counter,
                 running, ticker_task, tasks, websockets, collection, now,
                 next_tick_at, twitch_connected, stream_live, bcasts, hstate,
                 starts, stop_pc, stop_list, status_changes, cum, snap, points>>

\* the peer goes away: from now on a send or a close on the handle raises
ClientDrop(h) ==
  /\ hstate[h] = "open"
  /\ hstate' = [hstate EXCEPT ![h] = "dead"]
  /\ UNCHANGED <<initial_price, observed, client, request, response, heard, current_price, up_counter, down_counter,
                 running, ticker_task, tasks, websockets, collection, now,
                 next_tick_at, twitch_connected, stream_live, bcasts, inbox,
                 reg, starts, stop_pc, stop_list, status_changes, cum, snap, points>>

\* websocket_endpoint of main.py: receive_text raises, the handle is removed
websocket_endpoint_disconnect(h) ==
  /\ reg[h] = "done"
  /\ hstate[h] \in {"dead", "closed"}
  /\ websockets' = Without(websockets, {h})
  /\ reg' = [reg EXCEPT ![h] = "gone"]
  /\ UNCHANGED <<initial_price, observed, client, request, response, heard, current_price, up_counter, down_counter,
                 running, ticker_task, tasks, collection, now, next_tick_at,
                 twitch_connected, stream_live, bcasts, hstate, inbox, starts,
                 stop_pc, stop_list, status_changes, cum, snap, points>>

\* --------------------------------------------------------------------- start
\* a ticker task can be created while an unused task identity is left
FreeTasks == {t \in TaskIds : tasks[t].phase = "none"}

\* start() up to "await self._load_price_from_history()"
StartCall ==
  /\ IF running
     THEN UNCHANGED starts
     ELSE /\ starts < Cardinality(FreeTasks)
          /\ starts' = starts + 1
  /\ UNCHANGED <<initial_price, observed, client, request, response, heard, current_price, up_counter, down_counter,
                 running, ticker_task, tasks, websockets, collection, now,
                 next_tick_at, twitch_connected, stream_live, bcasts, hstate,
                 inbox, reg, stop_pc, stop_list, status_changes, cum, snap,
                 points>>

\* the $group aggregate over the whole collection; no document, no group
_load_price_from_history(coll, price) ==
  IF coll = <<>> THEN price
  ELSE _calculate_price(SumOver(coll, "up_count"), SumOver(coll, "down_count"))

\* the aggregate returns: the price is set and the ticker task is created;
\* create_task schedules _ticker_loop, which has not run yet
StartResume ==
  /\ starts > 0
  /\ FreeTasks # {}
  /\ LET t == CHOOSE x \in FreeTasks : \A y \in FreeTasks : x <= y
     IN /\ tasks' = [tasks EXCEPT ![t] = Parked("created")]
        /\ ticker_task' = t
  /\ starts' = starts - 1
  /\ current_price' = _load_price_from_history(collection, current_price)
  /\ running' = TRUE
  /\ UNCHANGED <<initial_price, observed, client, request, response, heard, up_counter, down_counter, websockets,
                 collection, now, next_tick_at, twitch_connected, stream_live,
                 bcasts, hstate, inbox, reg, stop_pc, stop_list, status_changes, cum,
                 snap, points>>

\* the first step of a created ticker task: "while self._running", then
\* "await asyncio.sleep"
TickerFirstStep(t) ==
  /\ tasks[t].phase = "created"
  /\ tasks' = [tasks EXCEPT ![t] = Parked(LoopCheck(running))]
  /\ UNCHANGED <<initial_price, observed, client, request, response, heard, current_price,
                 up_counter, down_counter, running, ticker_task, websockets,
                 collection, now, next_tick_at, twitch_connected, stream_live,
                 bcasts, hstate, inbox, reg, starts, stop_pc, stop_list,
                 status_changes, cum, snap, points>>

\* ---------------------------------------------------------------------- stop
Scheduled(t) == tasks[t].phase = "created"
Awaiting(t) == tasks[t].phase \in {"sleep", "insert", "send_tick", "send_live"}

\* "for ws in list(...): await ws.close()" from the handle at the head of lst;
\* a close that raises ends stop() before the clear()
CloseLoop(lst) ==
  IF lst = <<>>
  THEN /\ websockets' = <<>>
       /\ stop_pc' = "returned"
       /\ stop_list' = <<>>
       /\ UNCHANGED hstate
  ELSE IF hstate[Head(lst)] = "open"
       THEN /\ hstate' = [hstate EXCEPT ![Head(lst)] = "closed"]
            /\ stop_pc' = "closing"
            /\ stop_list' = Tail(lst)
            /\ UNCHANGED websockets
       ELSE /\ stop_pc' = "raised"
            /\ stop_list' = <<>>
            /\ UNCHANGED <<websockets, hstate>>

\* stop() up to its first await.  task.cancel() raises CancelledError at the
\* await the task is suspended at (a task that has not run yet never runs); an
\* insert_one that is under way may or may not have reached the store.
StopCall ==
  /\ stop_pc \in {"idle", "returned", "raised"}
  /\ running' = FALSE
  /\ IF ticker_task # 0 /\ (Scheduled(ticker_task) \/ Awaiting(ticker_task))
     THEN /\ \E landed \in (IF tasks[ticker_task].phase = "insert"
                             THEN BOOLEAN ELSE {FALSE}) :
               /\ tasks' = [tasks EXCEPT ![ticker_task] =
                    [@ EXCEPT !.phase = "cancelled", !.at = tasks[ticker_task].phase,
                              !.inserted = @ \/ landed]]
               /\ collection' = IF landed
                                THEN Append(collection, to_db(tasks[ticker_task].point))
                                ELSE collection
          /\ stop_pc' = "await_task"
          /\ UNCHANGED <<stop_list, websockets, hstate>>
     ELSE /\ CloseLoop(websockets)
          /\ UNCHANGED <<tasks, collection>>
  /\ UNCHANGED <<initial_price, observed, client, request, response, heard, current_price, up_counter, down_counter,
                 ticker_task, now, next_tick_at, twitch_connected, stream_live,
                 bcasts, inbox, reg, starts, status_changes, cum, snap, points>>

\* the cancelled ticker task has ended: the handles are copied and closed
StopAfterCancel ==
  /\ stop_pc = "await_task"
  /\ CloseLoop(websockets)
  /\ UNCHANGED <<initial_price, observed, client, request, response, heard, current_price, up_counter, down_counter,
                 running, ticker_task, tasks, collection, now, next_tick_at,
                 twitch_connected, stream_live, bcasts, inbox, reg, starts,
                 status_changes, cum, snap, points>>

\* a ws.close() returns
StopCloseNext ==
  /\ stop_pc = "closing"
  /\ CloseLoop(stop_list)
  /\ UNCHANGED <<initial_price, observed, client, request, response, heard, current_price, up_counter, down_counter,
                 running, ticker_task, tasks, collection, now, next_tick_at,
                 twitch_connected, stream_live, bcasts, inbox, reg, starts,
                 status_changes, cum, snap, points>>

\* ------------------------------------------------------------ TwitchClient
\* _update_status: the flag, and on_status_change (the engine's
\* set_twitch_status) when the flag changes
_update_status(c, status) == [c EXCEPT !.connected = status]

on_status_change(status) ==
  IF client.connected = status
  THEN UNCHANGED <<twitch_connected, bcasts, status_changes>>
  ELSE twitch_status_effect(status)

\* "while self._running" of _listen_loop, after _connect_and_listen returned
listen_again(r) == IF r THEN "connecting" ELSE "done"

\* "except Exception" of _listen_loop: _update_status(False), then sleep(5)
listen_loop_exits(c) == [_update_status(c, FALSE) EXCEPT !.pc = "done"]
listen_backoff(c) == [_update_status(c, FALSE) EXCEPT !.pc = "backoff"]

\* the finally of _connect_and_listen up to "await writer.wait_closed()"
connection_finally(c, pc) ==
  [_update_status(c, FALSE) EXCEPT !.writer = "none", !.pc = pc]

\* what a client step leaves alone
ClientFrame ==
  UNCHANGED <<initial_price, observed, request, response, heard, current_price,
              up_counter, down_counter, running, ticker_task, tasks,
              websockets, collection, now, next_tick_at, stream_live, hstate,
              inbox, reg, starts, stop_pc, stop_list, cum, snap, points>>

\* TwitchClient.start: create_task schedules _listen_loop, which has not run
\* yet.  start() is called when no stop() is suspended.
client_start ==
  /\ client.runs < MaxRuns
  /\ client.running \/ client.pc \in {"none", "done"}
  /\ client' = IF client.running THEN client
               ELSE [client EXCEPT !.running = TRUE, !.pc = "created",
                                   !.runs = @ + 1]
  /\ UNCHANGED <<twitch_connected, bcasts, status_changes>>
  /\ ClientFrame

\* the first step of the new task: "while self._running", then
\* _connect_and_listen up to "await asyncio.open_connection"
ClientFirstStep ==
  /\ client.pc = "created"
  /\ ~client.stopping
  /\ client' = [client EXCEPT !.pc = listen_again(client.running)]
  /\ UNCHANGED <<twitch_connected, bcasts, status_changes>>
  /\ ClientFrame

\* open_connection returns, PASS / NICK / JOIN are written and drain is
\* awaited; or it raises into the except of _listen_loop
ClientConnectDone ==
  /\ client.pc = "connecting"
  /\ ~client.stopping
  /\ \E ok \in BOOLEAN :
       IF ok
       THEN /\ client' = [client EXCEPT !.writer = "open", !.pc = "joining"]
            /\ UNCHANGED <<twitch_connected, bcasts, status_changes>>
       ELSE /\ client.failures < MaxFailures
            /\ client' = [listen_backoff(client) EXCEPT !.failures = @ + 1]
            /\ on_status_change(FALSE)
  /\ ClientFrame

\* the drain returns: _update_status(True) and the first readline; or it
\* raises, outside the try, and the writer is never closed
ClientJoinDone ==
  /\ client.pc = "joining"
  /\ ~client.stopping
  /\ \E ok \in BOOLEAN :
       IF ok
       THEN /\ client' = [_update_status(client, TRUE) EXCEPT !.pc = "reading"]
            /\ on_status_change(TRUE)
       ELSE /\ client.failures < MaxFailures
            /\ client' = [listen_backoff(client) EXCEPT !.failures = @ + 1]
            /\ on_status_change(FALSE)
  /\ ClientFrame

\* readline returns a PRIVMSG line: on_message is called with its text
ClientPrivmsg(message) ==
  /\ client.pc = "reading"
  /\ ~client.stopping
  /\ on_message(message)

\* readline returns a PING: the PONG is written and drain is awaited
ClientPing ==
  /\ client.pc = "reading"
  /\ ~client.stopping
  /\ client' = [client EXCEPT !.pc = "pong"]
  /\ UNCHANGED <<twitch_connected, bcasts, status_changes>>
  /\ ClientFrame

\* the PONG's drain returns, or raises into the finally
ClientPongDone ==
  /\ client.pc = "pong"
  /\ ~client.stopping
  /\ \E ok \in BOOLEAN :
       IF ok
       THEN /\ client' = [client EXCEPT !.pc = "reading"]
            /\ UNCHANGED <<twitch_connected, bcasts, status_changes>>
       ELSE /\ client.failures < MaxFailures
            /\ client' = [connection_finally(client, "closing_error")
                            EXCEPT !.failures = @ + 1]
            /\ on_status_change(FALSE)
  /\ ClientFrame

\* readline returns b"" (the server closed) or raises: the finally runs
ClientConnectionLost ==
  /\ client.pc = "reading"
  /\ ~client.stopping
  /\ client.failures < MaxFailures
  /\ \E pc \in {"closing_eof", "closing_error"} :
       client' = [connection_finally(client, pc) EXCEPT !.failures = @ + 1]
  /\ on_status_change(FALSE)
  /\ ClientFrame

\* wait_closed is over: after an end of file _connect_and_listen returns and
\* the loop connects again at once; an exception goes on to the except; the
\* CancelledError of stop() ends the task, and stop() returns
ClientCloseDone ==
  /\ \/ client.pc = "closing_cancel"
     \/ ~client.stopping /\ client.pc \in {"closing_eof", "closing_error"}
  /\ client' = CASE client.pc = "closing_cancel" ->
                      [client EXCEPT !.pc = "done", !.stopping = FALSE]
                 [] client.pc = "closing_eof" ->
                      [client EXCEPT !.pc = listen_again(client.running)]
                 [] OTHER -> listen_backoff(client)
  /\ on_status_change(FALSE)
  /\ ClientFrame

\* sleep(5) returns: the while loop connects again
ClientBackoffDone ==
  /\ client.pc = "backoff"
  /\ ~client.stopping
  /\ client' = [client EXCEPT !.pc = listen_again(client.running)]
  /\ UNCHANGED <<twitch_connected, bcasts, status_changes>>
  /\ ClientFrame

\* TwitchClient.stop up to "await self._task": _running is cleared and the
\* task is cancelled; the task has not run yet
client_stop ==
  /\ client.running
  /\ client' = IF client.pc \in {"none", "done"}
               THEN [client EXCEPT !.running = FALSE]
               ELSE [client EXCEPT !.running = FALSE, !.stopping = TRUE]
  /\ UNCHANGED <<twitch_connected, bcasts, status_changes>>
  /\ ClientFrame

\* the cancelled task runs: CancelledError is raised at the await it is
\* suspended at.  Inside the try the finally runs up to "await
\* writer.wait_closed()"; elsewhere (and in a task that never ran) the task
\* ends and stop() returns
ClientCancelled ==
  /\ client.stopping
  /\ client.pc # "closing_cancel"
  /\ IF client.pc \in {"reading", "pong"}
     THEN /\ client' = connection_finally(client, "closing_cancel")
          /\ on_status_change(FALSE)
     ELSE /\ client' = [client EXCEPT !.pc = "done", !.stopping = FALSE]
          /\ UNCHANGED <<twitch_connected, bcasts, status_changes>>
  /\ ClientFrame

\* ------------------------------------------------------------ GET /history
\* RANGE_MAP of main.py, in days
RANGE_MAP_without_1year ==
  ("today" :> 1) @@ ("3days" :> 3) @@ ("7days" :> 7) @@ ("30days" :> 30) @@
  ("3months" :> 90) @@ ("6months" :> 180)
RANGE_MAP ==
  ("today" :> 1) @@ ("3days" :> 3) @@ ("7days" :> 7) @@ ("30days" :> 30) @@
  ("3months" :> 90) @@ ("6months" :> 180) @@ ("1year" :> 365)

\* the range tokens a client sends: the seven of RANGE_MAP and others
RangeInputs ==
  {"today", "3days", "7days", "30days", "3months", "6months", "1year",
   "", "Today", "1day", "2years", "all"}

\* collection.find(...).sort("timestamp", 1)
RECURSIVE sort_by_timestamp(_)
sort_by_timestamp(docs) ==
  IF docs = <<>> THEN <<>>
  ELSE LET k == CHOOSE x \in 1..Len(docs) :
                  /\ \A j \in 1..Len(docs) : docs[x].timestamp <= docs[j].timestamp
                  /\ \A j \in 1..(x - 1) : docs[j].timestamp # docs[x].timestamp
       IN <<docs[k]>> \o sort_by_timestamp(RemoveAt(docs, k))

\* {"$match": {"timestamp": {"$lt": start_time}}}
older_than(coll, start_time) == SelectSeq(coll, LAMBDA d : d.timestamp < start_time)

\* find({"timestamp": {"$gte": start_time}})
whole_collection(coll, start_time) == coll
in_window(coll, start_time) == SelectSeq(coll, LAMBDA d : d.timestamp >= start_time)

\* ts_value.replace(minute=0, ...) or ts_value.replace(hour=0, minute=0, ...)
truncate_timestamp(ts_value, unit) ==
  IF unit = "hour" THEN ts_value - (ts_value % Hour) ELSE ts_value - (ts_value % Day)

\* max(0.0, settings.initial_price + ((base_up - base_down) * 0.5))
base_price(base_up, base_down) ==
  Max(0, initial_price + (((base_up - base_down) * Scale) \div 2))

\* max(0.0, price + ((counts["up"] - counts["down"]) * 0.5))
bucket_price_no_clamp(price, counts) == price + (((counts.up - counts.down) * Scale) \div 2)
bucket_price(price, counts) ==
  Max(0, price + (((counts.up - counts.down) * Scale) \div 2))

\* the "async for doc in cursor" loop: counts_by_bucket.setdefault(bucket, ..)
RECURSIVE counts_by_bucket(_, _, _)
counts_by_bucket(docs, unit, acc) ==
  IF docs = <<>> THEN acc
  ELSE LET bucket == truncate_timestamp(docs[1].timestamp, unit)
           counts == IF bucket \in DOMAIN acc THEN acc[bucket]
                     ELSE [up |-> 0, down |-> 0]
           added == [up |-> counts.up + docs[1].up_count,
                     down |-> counts.down + docs[1].down_count]
       IN counts_by_bucket(Tail(docs), unit,
            [b \in DOMAIN acc \cup {bucket} |-> IF b = bucket THEN added ELSE acc[b]])

\* "for bucket_ts in sorted(counts_by_bucket.keys())", from the running price
RECURSIVE history_rows(_, _, _)
history_rows(counts, keys, price) ==
  IF keys = {} THEN <<>>
  ELSE LET bucket_ts == CHOOSE b \in keys : \A c \in keys : b <= c
           next_price == bucket_price(price, counts[bucket_ts])
       IN <<[timestamp |-> bucket_ts, price |-> next_price,
             up_count |-> counts[bucket_ts].up,
             down_count |-> counts[bucket_ts].down]>>
          \o history_rows(counts, keys \ {bucket_ts}, next_price)

\* what a /history step leaves alone
HistoryFrame ==
  UNCHANGED <<initial_price, observed, client, current_price, up_counter,
              down_counter, running, ticker_task, tasks, websockets,
              collection, now, next_tick_at, twitch_connected, stream_live,
              bcasts, hstate, inbox, reg, starts, stop_pc, stop_list,
              status_changes, cum, snap, points, heard>>

\* the /history handler up to "await base_cursor.to_list(length=1)": 400 for
\* a token that is no key of RANGE_MAP, else start_time is taken from the
\* clock and the baseline aggregate is awaited
history(range) ==
  /\ request.pc = "idle"
  /\ IF range \notin DOMAIN RANGE_MAP
     THEN /\ response' = [range |-> range, status |-> 400, rows |-> <<>>]
          /\ UNCHANGED request
     ELSE /\ request' = [NoRequest EXCEPT !.pc = "base", !.range = range,
                           !.start_time = now - (RANGE_MAP[range] * Day)]
          /\ UNCHANGED response
  /\ HistoryFrame

\* the baseline aggregate returns the totals of the records that are older
\* than start_time now; the find cursor is awaited
HistoryBaseDone ==
  /\ request.pc = "base"
  /\ LET base == older_than(collection, request.start_time)
     IN request' = [request EXCEPT !.pc = "find",
                                   !.base_up = SumOver(base, "up_count"),
                                   !.base_down = SumOver(base, "down_count")]
  /\ UNCHANGED response
  /\ HistoryFrame

\* the find cursor returns the records of the window as they are now: the
\* bucketed series is built and returned.  The timestamps the engine stores
\* are datetimes, which normalize_timestamp leaves at the same instant.
HistoryFindDone ==
  /\ request.pc = "find"
  /\ LET unit == IF RANGE_MAP[request.range] <= AGGREGATE_HOURLY_MAX_DAYS
                 THEN "hour" ELSE "day"
         docs == sort_by_timestamp(in_window(collection, request.start_time))
         counts == counts_by_bucket(docs, unit, <<>>)
     IN response' = [range |-> request.range, status |-> 200,
                     rows |-> history_rows(counts, DOMAIN counts,
                                base_price(request.base_up, request.base_down))]
  /\ request' = NoRequest
  /\ HistoryFrame

\* ------------------------------------------------------------- specification
Next ==
  \/ \E message \in Messages : on_message(message)
  \/ \E t \in TaskIds : TickWake(t)
  \/ \E t \in TaskIds : TickInsertDone(t)
  \/ \E t \in TaskIds : TickSendTick(t)
  \/ \E t \in TaskIds : TickSendLive(t)
  \/ \E k \in 1..MaxBcasts : BcastRun(k)
  \/ \E b \in BOOLEAN : set_twitch_status(b)
  \/ \E b \in BOOLEAN : set_stream_status(b)
  \/ \E h \in Handles : RegisterAccept(h)
  \/ \E h \in Handles : RegisterSnapshot(h)
  \/ \E h \in Handles : RegisterLive(h)
  \/ \E h \in Handles : ClientDrop(h)
  \/ \E h \in Handles : websocket_endpoint_disconnect(h)
  \/ StartCall
  \/ StartResume
  \/ \E t \in TaskIds : TickerFirstStep(t)
  \/ StopCall
  \/ StopAfterCancel
  \/ StopCloseNext
  \/ \E range \in RangeInputs : history(range)
  \/ HistoryBaseDone
  \/ HistoryFindDone
  \/ client_start
  \/ ClientFirstStep
  \/ ClientConnectDone
  \/ ClientJoinDone
  \/ \E message \in Messages : ClientPrivmsg(message)
  \/ ClientPing
  \/ ClientPongDone
  \/ ClientConnectionLost
  \/ ClientCloseDone
  \/ ClientBackoffDone
  \/ client_stop
  \/ ClientCancelled

Spec == Init /\ [][Next]_vars

\* The price ledger and the scheduler, with no subscriber: signals, ticks,
\* persistence, start and stop.
LedgerNext ==
  \/ \E message \in Messages : handle_message(message)
  \/ \E t \in TaskIds : TickWake(t)
  \/ \E t \in TaskIds : TickInsertDone(t)
  \/ \E k \in 1..MaxBcasts : BcastRun(k)
  \/ StartCall
  \/ StartResume
  \/ \E t \in TaskIds : TickerFirstStep(t)
  \/ StopCall
  \/ StopAfterCancel

SpecLedger == InitQuiet /\ [][LedgerNext]_vars

\* The same with start() called only when no other start() is under way, as
\* main.py's startup_event calls it.
RestartNext ==
  \/ \E message \in Messages : handle_message(message)
  \/ \E t \in TaskIds : TickWake(t)
  \/ \E t \in TaskIds : TickInsertDone(t)
  \/ \E k \in 1..MaxBcasts : BcastRun(k)
  \/ (starts = 0 /\ StartCall)
  \/ StartResume
  \/ \E t \in TaskIds : TickerFirstStep(t)
  \/ StopCall
  \/ StopAfterCancel

SpecRestart == InitQuiet /\ [][RestartNext]_vars

\* The ticker loops of overlapping start() calls with one subscriber in the
\* list, so that a tick is suspended in its sends while signals arrive.
TicksNext ==
  \/ \E message \in Messages : handle_message(message)
  \/ \E t \in TaskIds : TickWake(t)
  \/ \E t \in TaskIds : TickInsertDone(t)
  \/ \E t \in TaskIds : TickSendTick(t)
  \/ \E t \in TaskIds : TickSendLive(t)
  \/ \E k \in 1..MaxBcasts : BcastRun(k)
  \/ RegisterAccept(1)
  \/ StartCall
  \/ StartResume
  \/ \E t \in TaskIds : TickerFirstStep(t)

SpecTicks == InitQuiet /\ [][TicksNext]_vars

\* The same, shorter, with the subscriber's inbox kept.
OrderNext ==
  \/ (cum.up + cum.down < FewSignals /\ \E message \in Messages : handle_message(message))
  \/ (now < FewTicks /\ \E t \in TaskIds : TickWake(t))
  \/ \E t \in TaskIds : TickInsertDone(t)
  \/ \E t \in TaskIds : TickSendTick(t)
  \/ \E t \in TaskIds : TickSendLive(t)
  \/ \E k \in 1..MaxBcasts : BcastRun(k)
  \/ RegisterAccept(1)
  \/ StartCall
  \/ StartResume
  \/ \E t \in TaskIds : TickerFirstStep(t)

SpecOrder == InitOne /\ [][OrderNext]_vars

\* The subscriber registry with no ticker loop: registrations, live_counts
\* broadcasts, peers going away and stop(), the inbox of handle 1 kept.
RegistryNext ==
  \/ (cum.up + cum.down < FewSignals /\ \E message \in Messages : handle_message(message))
  \/ \E k \in 1..MaxBcasts : BcastRun(k)
  \/ \E h \in Handles : RegisterAccept(h)
  \/ \E h \in Handles : RegisterSnapshot(h)
  \/ \E h \in Handles : RegisterLive(h)
  \/ \E h \in Handles : ClientDrop(h)
  \/ \E h \in Handles : websocket_endpoint_disconnect(h)
  \/ StopCall
  \/ StopCloseNext

SpecRegistry == InitOne /\ [][RegistryNext]_vars

\* The chat feed, every message logged, over the ledger with one ticker loop.
ChatNext ==
  \/ \E message \in Messages : on_message(message)
  \/ (now < FewTicks /\ \E t \in TaskIds : TickWake(t))
  \/ \E t \in TaskIds : TickInsertDone(t)
  \/ \E k \in 1..MaxBcasts : BcastRun(k)
  \/ (starts = 0 /\ StartCall)
  \/ StartResume
  \/ \E t \in TaskIds : TickerFirstStep(t)

SpecChat == Init /\ [][ChatNext]_vars

\* The chat client feeding the engine, run fairly: a wait_closed ends, a
\* sleep(5) returns, a connection attempt returns or raises.
ClientNext ==
  \/ client_start
  \/ ClientFirstStep
  \/ ClientConnectDone
  \/ ClientJoinDone
  \/ \E message \in Messages : ClientPrivmsg(message)
  \/ ClientPing
  \/ ClientPongDone
  \/ ClientConnectionLost
  \/ ClientCloseDone
  \/ ClientBackoffDone
  \/ client_stop
  \/ ClientCancelled
  \/ \E k \in 1..MaxBcasts : BcastRun(k)

SpecClient ==
  /\ InitQuiet
  /\ [][ClientNext]_vars
  /\ WF_vars(ClientCloseDone)
  /\ WF_vars(ClientBackoffDone)

\* One ticker loop over an empty collection, with no subscriber, and the
\* /history handler queried between its steps.
SeriesRanges == {"today", "30days"}     \* an hourly and a daily series

SeriesNext ==
  \/ \E message \in Messages : handle_message(message)
  \/ \E t \in TaskIds : TickWake(t)
  \/ \E t \in TaskIds : TickInsertDone(t)
  \/ \E k \in 1..MaxBcasts : BcastRun(k)
  \/ (starts = 0 /\ StartCall)
  \/ StartResume
  \/ \E t \in TaskIds : TickerFirstStep(t)
  \/ \E range \in SeriesRanges : history(range)
  \/ HistoryBaseDone
  \/ HistoryFindDone

SpecSeries == InitQuiet /\ [][SeriesNext]_vars

\* The broadcaster with no ticker loop: status broadcasts running concurrently
\* over handles that register, go away and are removed, every inbox kept.
SweepsNext ==
  \/ \E k \in 1..MaxBcasts : BcastRun(k)
  \/ \E b \in BOOLEAN : set_twitch_status(b)
  \/ \E b \in BOOLEAN : set_stream_status(b)
  \/ \E h \in Handles : RegisterAccept(h)
  \/ \E h \in Handles : RegisterSnapshot(h)
  \/ \E h \in Handles : RegisterLive(h)
  \/ \E h \in Handles : ClientDrop(h)
  \/ \E h \in Handles : websocket_endpoint_disconnect(h)

SpecSweeps == Init /\ [][SweepsNext]_vars

\* One ticker loop with a subscriber whose peer may go away, run fairly: a
\* sleep that is over returns, an insert_one returns or raises, a send_text
\* returns or raises, and the aggregate of start() returns.
LoopWake == now < FewTicks /\ \E t \in TaskIds : TickWake(t)

LoopNext ==
  \/ (cum.up + cum.down < FewSignals /\ \E message \in Messages : handle_message(message))
  \/ LoopWake
  \/ \E t \in TaskIds : TickInsertDone(t)
  \/ \E t \in TaskIds : TickSendTick(t)
  \/ \E t \in TaskIds : TickSendLive(t)
  \/ \E k \in 1..MaxBcasts : BcastRun(k)
  \/ RegisterAccept(1)
  \/ ClientDrop(1)
  \/ (starts = 0 /\ StartCall)
  \/ StartResume
  \/ \E t \in TaskIds : TickerFirstStep(t)
  \/ StopCall
  \/ StopAfterCancel
  \/ StopCloseNext

SpecLoop ==
  /\ InitQuiet
  /\ [][LoopNext]_vars
  /\ WF_vars(LoopWake)
  /\ WF_vars(\E t \in TaskIds : TickInsertDone(t))
  /\ WF_vars(\E t \in TaskIds : TickSendTick(t))
  /\ WF_vars(\E t \in TaskIds : TickSendLive(t))
  /\ WF_vars(StartResume)
  /\ WF_vars(\E t \in TaskIds : TickerFirstStep(t))

\* The history query on the store a restarted process finds: an engine just
\* constructed over a collection of earlier ticks' records.
HistoryInitialPrices == {1, 200}     \* initial_price 0.5, and the default 100.0
QueryTimes == {20001}                \* the clock at the query, mid-hour
HistoryTimes == {2480, 18560, 18562, 19952, 19953, 19954, 19955, 20001}
HistoryCounts == {<<1, 0>>, <<0, 3>>, <<10, 2>>}

HistoryRecords ==
  {[timestamp |-> ts, up_count |-> c[1], down_count |-> c[2]] :
     ts \in HistoryTimes, c \in HistoryCounts}

\* the records of earlier ticks, in the order they were inserted
HistoryCollections ==
  UNION {{c \in [1..n -> HistoryRecords] :
            \A k \in 1..(n - 1) : c[k].timestamp < c[k + 1].timestamp}
         : n \in 0..MaxRecords}

InitHistory ==
  /\ initial_price \in HistoryInitialPrices
  /\ current_price = initial_price
  /\ up_counter = 0
  /\ down_counter = 0
  /\ running = FALSE
  /\ ticker_task = 0
  /\ tasks = [t \in TaskIds |-> IdleTask]
  /\ websockets = <<>>
  /\ collection \in HistoryCollections
  /\ now \in QueryTimes
  /\ next_tick_at = now + TickInterval
  /\ twitch_connected = FALSE
  /\ stream_live = FALSE
  /\ bcasts = <<>>
  /\ hstate = [h \in Handles |-> "new"]
  /\ inbox = [h \in Handles |-> <<>>]
  /\ observed = {}
  /\ reg = [h \in Handles |-> "idle"]
  /\ starts = 0
  /\ stop_pc = "idle"
  /\ stop_list = <<>>
  /\ status_changes = 0
  /\ cum = [up |-> 0, down |-> 0]
  /\ snap = [up |-> 0, down |-> 0]
  /\ points = <<>>
  /\ response = NoResponse
  /\ heard = NoMessage
  /\ client = NewClient
  /\ request = NoRequest

HistoryNext ==
  \/ \E range \in RangeInputs : history(range)
  \/ HistoryBaseDone
  \/ HistoryFindDone

SpecHistory == InitHistory /\ [][HistoryNext]_vars

\* A restarted process: an engine constructed over the records that earlier
\* runs left (their timestamps are before this run's clock starts), then
\* every kind of call on it with one subscriber and one ticker loop, up to
\* the first chat signal, the first tick and the first status change.
BootRecords ==
  {[timestamp |-> 0 - 1, up_count |-> c[1], down_count |-> c[2]] : c \in HistoryCounts}

BootCollections == {<<>>} \cup {<<r>> : r \in BootRecords}

InitBoot ==
  /\ initial_price \in InitialPrices
  /\ current_price = initial_price
  /\ up_counter = 0
  /\ down_counter = 0
  /\ running = FALSE
  /\ ticker_task = 0
  /\ tasks = [t \in TaskIds |-> IdleTask]
  /\ websockets = <<>>
  /\ collection \in BootCollections
  /\ now = 0
  /\ next_tick_at = TickInterval
  /\ twitch_connected = FALSE
  /\ stream_live = FALSE
  /\ bcasts = <<>>
  /\ hstate = [h \in Handles |-> "new"]
  /\ inbox = [h \in Handles |-> <<>>]
  /\ observed = {}
  /\ reg = [h \in Handles |-> "idle"]
  /\ starts = 0
  /\ stop_pc = "idle"
  /\ stop_list = <<>>
  /\ status_changes = 0
  /\ cum = [up |-> 0, down |-> 0]
  /\ snap = [up |-> 0, down |-> 0]
  /\ points = <<>>
  /\ response = NoResponse
  /\ heard = NoMessage
  /\ client = NewClient
  /\ request = NoRequest

BootNext ==
  \/ (cum.up + cum.down = 0 /\ \E message \in Messages : on_message(message))
  \/ (now = 0 /\ \E t \in TaskIds : TickWake(t))
  \/ \E t \in TaskIds : TickInsertDone(t)
  \/ \E t \in TaskIds : TickSendTick(t)
  \/ \E t \in TaskIds : TickSendLive(t)
  \/ \E k \in 1..MaxBcasts : BcastRun(k)
  \/ (status_changes = 0 /\ \E b \in BOOLEAN : set_twitch_status(b))
  \/ RegisterAccept(1)
  \/ RegisterSnapshot(1)
  \/ RegisterLive(1)
  \/ (response = NoResponse /\ now > 0 /\ stop_pc = "idle" /\ history("today"))
  \/ HistoryBaseDone
  \/ HistoryFindDone
  \/ (starts = 0 /\ StartCall)
  \/ StartResume
  \/ \E t \in TaskIds : TickerFirstStep(t)
  \/ StopCall
  \/ StopAfterCancel
  \/ StopCloseNext

SpecBoot == InitBoot /\ [][BootNext]_vars

\* ------------------------------------------------------ what the claims read
RECURSIVE SortedByTs(_)
\* the records in timestamp order (sort("timestamp", 1))
SortedByTs(recs) ==
  IF recs = {} THEN <<>>
  ELSE LET first == CHOOSE x \in recs : \A y \in recs : x.timestamp <= y.timestamp
       IN <<first>> \o SortedByTs(recs \ {first})

RECURSIVE Replay(_, _)
\* the live tick rule applied to each record in turn, from price
Replay(recs, price) ==
  IF recs = <<>> THEN price
  ELSE Replay(Tail(recs), Max(0, price + recs[1].up_count - recs[1].down_count))

\* the price of the PricePoint a record was written from
PriceOf(r) ==
  LET p == CHOOSE x \in Range(points) : x.point.timestamp = r.timestamp
  IN p.point.price

Persisted(p) == \E r \in Range(collection) : r.timestamp = p.point.timestamp

InTick(t) == tasks[t].phase \in {"insert", "send_tick", "send_live"}

\* -------------------------------------------------------------------- claims

\* C1: in every reachable state of the engine (after construction, after the
\* startup recovery, after any signals and ticks) current_price is >= 0.
C1_PriceNeverNegative == current_price >= 0

\* a tick has run on more net down signals than the price could take: clamped
C1_Witness ==
  /\ current_price = 0
  /\ \E p \in Range(points) :
       p.before + p.point.up_count - p.point.down_count < 0

\* C2 as stated: a tick whose snapshot has up_count = down_count, non-zero
\* counts included, leaves the price as it was and inserts no record.
C2_ZeroNetNoRecord ==
  \A p \in Range(points) :
    p.point.up_count = p.point.down_count =>
      p.point.price = p.before /\ ~Persisted(p)

\* C2 amended: a tick whose snapshot has up_count = down_count leaves
\* current_price as it was; when both counts are zero it goes on to no insert
\* and builds no PricePoint, and when they are equal and non-zero it goes on
\* to insert a record with those counts.
C2_ZeroNetTick ==
  [][(now' # now /\ up_counter = down_counter) =>
       /\ current_price' = current_price
       /\ up_counter = 0 =>
            /\ collection' = collection
            /\ points' = points
            /\ \A t \in TaskIds : tasks'[t].phase = "insert" => tasks[t].phase = "insert"
       /\ up_counter > 0 =>
            \E t \in TaskIds :
              /\ tasks[t].phase = "sleep"
              /\ tasks'[t].phase = "insert"
              /\ tasks'[t].point.up_count = up_counter
              /\ tasks'[t].point.down_count = down_counter]_vars

\* a tick on equal non-zero counts has run and its record is in the collection
C2_Witness ==
  \E r \in Range(collection) : r.up_count = r.down_count /\ r.up_count > 0

\* C4: for an engine that persisted all its ticks and has no ticker loop left
\* (it was never started, or it was stopped), the price after start()'s
\* recovery is the replay of the records, oldest first, through the live tick
\* rule from initial_price, and is the in-memory price held before.
C4_RecoveryIsReplay ==
  [][(/\ starts' < starts
      /\ \A t \in TaskIds : ~Awaiting(t)
      /\ \A p \in Range(points) : Persisted(p)) =>
       /\ current_price' = Replay(SortedByTs(Range(collection)), initial_price)
       /\ current_price' = current_price]_vars

\* C5: of two consecutive persisted records, in timestamp order, the second's
\* price is max(0, first's price + (second.up_count - second.down_count) * 0.5).
C5_ConsecutiveRecords ==
  LET recs == SortedByTs(Range(collection))
  IN \A k \in 1..(Len(recs) - 1) :
       PriceOf(recs[k + 1]) =
         Max(0, PriceOf(recs[k]) + recs[k + 1].up_count - recs[k + 1].down_count)

\* C6: at most one ticker loop task exists and at most one tick computation is
\* in progress, whatever the interleaving of start() and stop() calls.
C6_SingleTicker ==
  /\ Cardinality({t \in TaskIds : Awaiting(t)}) <= 1
  /\ Cardinality({t \in TaskIds : InTick(t)}) <= 1

\* every effect of the tick a cancelled task was in has happened
TickAllDone(t) ==
  /\ tasks[t].inserted
  /\ \/ tasks[t].at = "insert" /\ websockets = <<>>
     \/ tasks[t].at = "send_live" /\ tasks[t].i > Len(websockets)

\* C7: once stop() has returned, the tick of the task it cancelled has had none
\* of its effects (the task was in its sleep) or all of them.
C7_NoPartialTick ==
  \A t \in TaskIds :
    (stop_pc = "returned" /\ tasks[t].phase = "cancelled") =>
      tasks[t].at \in {"created", "sleep"} \/ TickAllDone(t)

\* C3: the first message a subscriber is sent is the snapshot of register().
C3_SnapshotFirst ==
  \A h \in observed : inbox[h] # <<>> => inbox[h][1].type = "snapshot"

\* C8: when stop() ends, every handle of the active set has been closed and
\* the active set is empty.
C8_StopClosesAll ==
  [][(stop_pc \in {"await_task", "closing"} /\ stop_pc' \in {"returned", "raised"}) =>
       /\ websockets' = <<>>
       /\ \A h \in Range(websockets) : hstate'[h] = "closed"]_vars

\* C9: the tick messages a subscriber receives are in the order the ticks were
\* computed.
C9_TickOrder ==
  \A h \in observed :
    \A j \in 1..Len(inbox[h]) : \A k \in (j + 1)..Len(inbox[h]) :
      (inbox[h][j].type = "tick" /\ inbox[h][k].type = "tick") =>
        inbox[h][j].timestamp < inbox[h][k].timestamp

\* C10: each persisted record's counts are exactly the signals recorded between
\* the previous counter snapshot and its own: the counters hold every signal
\* since the latest snapshot, and the PricePoints every earlier one, once.
C10_CountsAreSignals ==
  /\ \A r \in Range(collection) :
       \E p \in Range(points) :
         /\ p.point.timestamp = r.timestamp
         /\ r.up_count = p.sig_up
         /\ r.down_count = p.sig_down
  /\ up_counter = cum.up - snap.up
  /\ down_counter = cum.down - snap.down
  /\ SumOver([k \in 1..Len(points) |-> points[k].point], "up_count") = snap.up
  /\ SumOver([k \in 1..Len(points) |-> points[k].point], "down_count") = snap.down

\* two records are persisted and a signal has been recorded while a tick is
\* suspended in a send
C10_Witness ==
  /\ Len(collection) >= 2
  /\ up_counter + down_counter > 0
  /\ \E t \in TaskIds : tasks[t].phase \in {"send_tick", "send_live"}

\* C11: every tick whose snapshot has up_count > 0 or down_count > 0 (every
\* PricePoint built) has exactly one record in the collection once its insert
\* step is over: a record is absent only for an interval with no signal.
C11_RecordUnlessNoSignal ==
  \A p \in Range(points) :
    (\A t \in TaskIds : ~(tasks[t].phase = "insert" /\ tasks[t].point = p.point)) =>
      Cardinality({k \in 1..Len(collection) :
                     collection[k].timestamp = p.point.timestamp}) = 1

\* C12: every record in the collection carries timestamp, price, up_count and
\* down_count, the price being current_price right after its tick's update.
C12_RecordCarriesPrice ==
  \A r \in Range(collection) :
    /\ DOMAIN r = {"timestamp", "price", "up_count", "down_count"}
    /\ r.price = PriceOf(r)

\* the instant a valid query's window starts at
WindowStart == now - (RANGE_MAP[response.range] * Day)

\* C13: a history query whose range token is outside {today, 3days, 7days,
\* 30days, 3months, 6months, 1year} is answered with an error and changes no
\* engine or storage state; a query whose token is in the set is not rejected.
C13_InvalidRangeRejected ==
  [][response' # response =>
       LET valid == {"today", "3days", "7days", "30days", "3months", "6months",
                     "1year"}
       IN /\ response'.range \notin valid =>
               /\ response'.status = 400
               /\ UNCHANGED <<initial_price, current_price, up_counter,
                              down_counter, running, ticker_task, tasks,
                              websockets, collection, next_tick_at,
                              twitch_connected, stream_live, bcasts, hstate>>
          /\ response'.range \in valid => response'.status = 200]_vars

\* a token that differs from a valid one by its case has been rejected, with
\* records in the store
C13_Witness ==
  /\ response.range = "Today"
  /\ response.status = 400
  /\ collection # <<>>

\* C14: the rows of a valid history query have strictly increasing bucket
\* timestamps, one row per bucket that holds an in-window record, each row's
\* counts the totals of the in-window records of its bucket, and each row's
\* price the clamped replay from the baseline price p_0 = max(0, initial_price
\* + 0.5 * (up - down of the records older than start)).
C14_HistoryIsReplay ==
  response.status = 200 =>
    LET rows == response.rows
        hourly == response.range \in {"today", "3days", "7days"}
        Bucket(ts) == IF hourly THEN Hour * (ts \div Hour) ELSE Day * (ts \div Day)
        older == SelectSeq(collection, LAMBDA d : d.timestamp < WindowStart)
        inside == SelectSeq(collection, LAMBDA d : ~(d.timestamp < WindowStart))
        InBucket(b) == SelectSeq(inside, LAMBDA d : Bucket(d.timestamp) = b)
        p0 == Max(0, initial_price + SumOver(older, "up_count")
                                   - SumOver(older, "down_count"))
    IN /\ \A i \in 1..(Len(rows) - 1) : rows[i].timestamp < rows[i + 1].timestamp
       /\ {rows[i].timestamp : i \in 1..Len(rows)} =
            {Bucket(d.timestamp) : d \in Range(inside)}
       /\ \A i \in 1..Len(rows) :
            /\ rows[i].up_count = SumOver(InBucket(rows[i].timestamp), "up_count")
            /\ rows[i].down_count = SumOver(InBucket(rows[i].timestamp), "down_count")
            /\ rows[i].price =
                 Max(0, (IF i = 1 THEN p0 ELSE rows[i - 1].price)
                        + rows[i].up_count - rows[i].down_count)

\* the example: initial price 100, one record (up=10, down=2) older than the
\* window of "today" and one (up=1, down=0) inside it: one row, price 104.5
C14_Witness ==
  /\ response.range = "today"
  /\ response.status = 200
  /\ initial_price = 200
  /\ Len(collection) = 2
  /\ collection[1].timestamp < WindowStart
  /\ collection[1].up_count = 10 /\ collection[1].down_count = 2
  /\ collection[2].timestamp >= WindowStart
  /\ collection[2].up_count = 1 /\ collection[2].down_count = 0
  /\ Len(response.rows) = 1
  /\ response.rows[1].price = 209

\* C15: a valid history query with no record at or after its window's start
\* returns an empty series and no error, however many records are older.
C15_EmptyWindowEmptySeries ==
  (/\ response.range \in {"today", "3days", "7days", "30days", "3months",
                          "6months", "1year"}
   /\ \A r \in Range(collection) : r.timestamp < WindowStart) =>
     /\ response.status = 200
     /\ response.rows = <<>>

\* "today" has been asked of a store whose records are all older than a day
C15_Witness ==
  /\ response.range = "today"
  /\ response.status = 200
  /\ response.rows = <<>>
  /\ Len(collection) >= 2
  /\ \A r \in Range(collection) : r.timestamp < WindowStart

\* C16: a tick whose snapshotted counters are both zero inserts no record,
\* sends no message to any subscriber, creates no broadcast, leaves
\* current_price as it was and advances next_tick_at; a tick with a non-zero
\* counter sets current_price to max(0, previous price + (up - down) * 0.5).
C16_EmptyTickSkips ==
  [][now' # now =>
       IF up_counter = 0 /\ down_counter = 0
       THEN /\ collection' = collection
            /\ inbox' = inbox
            /\ bcasts' = bcasts
            /\ points' = points
            /\ current_price' = current_price
            /\ next_tick_at' = now' + TickInterval
            /\ next_tick_at' > next_tick_at
            /\ \A t \in TaskIds :
                 tasks'[t] # tasks[t] => tasks'[t].phase \in {"sleep", "done"}
       ELSE current_price' = Max(0, current_price + up_counter - down_counter)]_vars

\* the second tick, with a subscriber that was sent the first tick's message,
\* found both counters at zero and went back to sleep
C16_Witness ==
  /\ now = 2
  /\ Len(points) = 1
  /\ points[1].point.timestamp = 1
  /\ next_tick_at = 3
  /\ websockets = <<1>>
  /\ \E k \in 1..Len(inbox[1]) : inbox[1][k].type = "tick"
  /\ \A t \in TaskIds : tasks[t].phase \in {"sleep", "none"}

\* C17: the live_counts message a non-empty tick broadcasts at its end carries
\* up_count = 0 and down_count = 0.
C17_ResetLiveCounts ==
  \A t \in TaskIds :
    tasks[t].phase = "send_live" =>
      tasks[t].msg.up_count = 0 /\ tasks[t].msg.down_count = 0

\* the tick at clock n built a PricePoint, is past its insert step and left no
\* record, and the engine is running
FailedTick(n) ==
  /\ now = n
  /\ running
  /\ \E p \in Range(points) :
       /\ p.point.timestamp = n
       /\ ~Persisted(p)
       /\ \A t \in TaskIds : ~(tasks[t].phase = "insert" /\ tasks[t].point = p.point)

\* C18: an exception inside a tick does not end the ticker loop: while the
\* engine is running, after a failed tick the loop runs the next tick; the
\* failed tick's counts are not put back into the counters (these hold the
\* signals since the latest snapshot only) and are in no later record (each
\* record holds the signals of its own interval only).
C18_FailedTickLoopGoesOn ==
  /\ [](/\ up_counter = cum.up - snap.up
        /\ down_counter = cum.down - snap.down
        /\ \A r \in Range(collection) : \E p \in Range(points) :
             /\ p.point.timestamp = r.timestamp
             /\ r.up_count = p.sig_up /\ r.down_count = p.sig_down)
  /\ \A n \in 0..(FewTicks - 1) : FailedTick(n) ~> (now > n \/ ~running)

\* a tick's insert raised, stop() was never called, and a later tick of the
\* same loop has persisted its record
C18_Witness ==
  /\ running
  /\ stop_pc = "idle"
  /\ \E p \in Range(points) :
       /\ ~Persisted(p)
       /\ \E r \in Range(collection) : r.timestamp > p.point.timestamp

\* the broadcast tasks that end in this step
Ending(k) ==
  /\ k \in 1..Len(bcasts)
  /\ bcasts[k].phase = "sending"
  /\ bcasts' = RemoveAt(bcasts, k)

\* how many times a sweep called send_text on handle h
Attempts(b, h) == Cardinality({j \in 1..Len(b.tried) : b.tried[j] = h})

\* C19: a broadcast's sweep ends only when its iterator is past the end of the
\* list, never at a failed send, so the handles after a failed one are still
\* tried; when it completes, every handle whose send failed in it is out of the
\* active set and no other handle was removed by it.
C19_FailedSendsPruned ==
  [][\A k \in 1..MaxBcasts :
       Ending(k) =>
         /\ \A h \in bcasts[k].disc : h \notin Range(websockets')
         /\ Range(websockets) \ Range(websockets') \subseteq bcasts[k].disc
         /\ bcasts[k].i > Len(websockets)]_vars

\* a sweep over handles 1 and 2 failed on handle 1 and then delivered its
\* message to handle 2; what is left of it is the removal
C19_Witness ==
  \E k \in 1..Len(bcasts) :
    /\ bcasts[k].phase = "sending"
    /\ websockets = <<1, 2>>
    /\ bcasts[k].began = <<1, 2>>
    /\ bcasts[k].tried = <<1, 2>>
    /\ bcasts[k].disc = {1}
    /\ bcasts[k].i > Len(websockets)
    /\ inbox[2] # <<>>
    /\ inbox[2][Len(inbox[2])] = bcasts[k].msg

\* C20: each handle that is in the active set from the start of a broadcast
\* sweep to its end is sent the message exactly once by that sweep, whatever
\* other broadcasts, registrations and disconnect removals run meanwhile.
C20_SweepReachesAll ==
  [][\A k \in 1..MaxBcasts :
       Ending(k) =>
         \A h \in Range(bcasts[k].began) \cap Range(websockets) :
           Attempts(bcasts[k], h) = 1]_vars

\* the status broadcast tasks created and not yet run
StatusCreated(b) ==
  Cardinality({k \in 1..Len(b) : b[k].kind = "status" /\ b[k].phase = "created"})

\* C21: a step that changes twitch_connected or stream_live changes one of the
\* two, creates exactly one status broadcast task and changes nothing else of
\* the engine; no other step, a setter called with the current value included,
\* creates a status broadcast task.
C21_StatusChangeDetection ==
  [][IF twitch_connected' # twitch_connected \/ stream_live' # stream_live
     THEN /\ twitch_connected' = twitch_connected \/ stream_live' = stream_live
          /\ bcasts' = Append(bcasts, NewStatusTask)
          /\ UNCHANGED <<initial_price, current_price, up_counter, down_counter,
                         running, ticker_task, tasks, websockets, collection,
                         now, next_tick_at, hstate, inbox, reg, starts, stop_pc,
                         stop_list, cum, snap, points, response>>
     ELSE StatusCreated(bcasts') <= StatusCreated(bcasts)]_vars

\* both flags have been changed and the two status broadcasts are scheduled
C21_Witness ==
  /\ twitch_connected
  /\ stream_live
  /\ StatusCreated(bcasts) = 2

\* a message in lower case, and whether it contains a keyword
Lowered(message) ==
  [k \in 1..Len(message) |->
     IF message[k] = "U" THEN "u" ELSE IF message[k] = "D" THEN "d" ELSE message[k]]

Has(message, letter) == \E k \in 1..Len(message) : Lowered(message)[k] = letter

\* C22: an on_message call adds 1 to the up counter iff the lower-cased message
\* contains the up keyword and 1 to the down counter iff it contains the down
\* keyword, each independently of the other; no other step lowers a counter,
\* but a tick's reset to zero.
C22_KeywordCounts ==
  [][IF heard' # heard
     THEN /\ up_counter' = up_counter + (IF Has(heard'.message, "u") THEN 1 ELSE 0)
          /\ down_counter' =
               down_counter + (IF Has(heard'.message, "d") THEN 1 ELSE 0)
     ELSE /\ up_counter' >= up_counter \/ (now' # now /\ up_counter' = 0)
          /\ down_counter' >= down_counter \/ (now' # now /\ down_counter' = 0)]_vars

\* a message with both keywords in upper case has just raised both counters,
\* which held signals already
C22_Witness ==
  /\ heard.message = <<"U", "D">>
  /\ up_counter = 2
  /\ down_counter = 1

\* a step that inserts a record: the insert_one of a tick that is suspended in
\* it completes
TickInserts ==
  \E t \in TaskIds :
    /\ tasks[t].phase = "insert"
    /\ collection' = Append(collection, to_db(tasks[t].point))

\* C23 as stated: only a tick changes current_price and only a tick's insert
\* changes the collection; start() and stop(), like every other call, change
\* neither.
C23_TickOnlyWriter ==
  [][/\ current_price' # current_price => now' # now
     /\ collection' # collection => TickInserts]_vars

\* C23 amended: current_price is changed by a tick and by start(), whose
\* recovery sets it to max(0, initial_price + 0.5 * (sum of up - sum of down
\* over all records)) when there is a record; no other call changes it, and
\* only a tick's insert changes the collection, by appending its record.
C23_TickAndStartWrite ==
  [][/\ current_price' # current_price =>
          \/ now' # now
          \/ /\ starts' < starts
             /\ collection # <<>>
             /\ current_price' =
                  Max(0, initial_price + SumOver(collection, "up_count")
                                       - SumOver(collection, "down_count"))
     /\ collection' # collection => TickInserts]_vars

\* start() has recovered, from a record of an earlier run, a price that is not
\* the configured one; since then a tick has moved the price and stored a record
C23_Witness ==
  /\ running
  /\ Len(collection) = 2
  /\ collection[1].timestamp < 0
  /\ collection[1].up_count = 10
  /\ Len(points) = 1
  /\ points[1].before = initial_price + 8
  /\ current_price # points[1].before

\* C24: while the chat client is running, every connection failure and every
\* connection close is followed by a new connection attempt, and the client's
\* connected flag is false whenever its connection is not open.
C24_ClientReconnects ==
  /\ [](client.connected => client.writer = "open")
  /\ (client.running /\ client.pc \in {"backoff", "closing_eof", "closing_error"})
       ~> (client.pc = "connecting" \/ ~client.running)

\* the connection was up, was lost, and the running client is connecting
\* again with its flag down
C24_Witness ==
  /\ client.running
  /\ client.pc = "connecting"
  /\ client.failures >= 1
  /\ ~client.connected
  /\ ~twitch_connected
  /\ status_changes = 2

\* the record a tick message was built from
RecordOf(msg) ==
  {r \in Range(collection) :
     /\ r.timestamp = msg.timestamp
     /\ r.up_count = msg.up_count
     /\ r.down_count = msg.down_count}

\* a tick's insert_one raises in this step
InsertFails(t) ==
  /\ tasks[t].phase = "insert"
  /\ tasks'[t].phase # "insert"
  /\ collection' = collection

\* C25: every tick message a subscriber was sent has its record in the
\* collection, with the same up_count and down_count; a tick whose insert
\* fails sends no tick message and no reset live_counts message: the step
\* sends nothing and the task is back at the loop, in no sweep.
C25_TickMessageAfterInsert ==
  /\ [](\A h \in observed : \A j \in 1..Len(inbox[h]) :
          inbox[h][j].type = "tick" => RecordOf(inbox[h][j]) # {})
  /\ [][\A t \in TaskIds :
          InsertFails(t) =>
            /\ inbox' = inbox
            /\ tasks'[t].phase \in {"sleep", "done"}]_vars

\* a subscriber holds the tick message of one tick, and another tick with
\* signals failed at its insert and left no record
C25_Witness ==
  /\ \E j \in 1..Len(inbox[1]) : inbox[1][j].type = "tick"
  /\ \E p \in Range(points) :
       /\ ~Persisted(p)
       /\ \A t \in TaskIds : tasks[t].point # p.point
  /\ 1 \in Range(websockets)

\* the price a history response ends at: its last row's, or the baseline of
\* the query when it has no row
EndPrice(resp, req) ==
  IF resp.rows # <<>> THEN resp.rows[Len(resp.rows)].price
  ELSE base_price(req.base_up, req.base_down)

\* a /history call returns in this step, and no tick ran since it was made
HistoryReturns ==
  /\ request.pc = "find"
  /\ request'.pc = "idle"
  /\ request.start_time = now - (RANGE_MAP[request.range] * Day)

\* no tick is in progress, none has failed and none was cancelled
NoTickLost ==
  /\ \A t \in TaskIds : ~InTick(t) /\ tasks[t].phase # "cancelled"
  /\ \A p \in Range(points) : Persisted(p)
  /\ stop_pc = "idle"

\* C26: with no tick in progress and no failed or cancelled tick, a history
\* query of any range token ends at the engine's current_price (its last
\* row's price, or the baseline price when it has no row), clamped or not.
C26_HistoryEndsAtCurrentPrice ==
  [][(HistoryReturns /\ NoTickLost) =>
       EndPrice(response', request) = current_price]_vars

====
